---- MODULE Spec2Model ----
(***************************************************************************)
(* Touch Diagnostics: the zustand session store (useSessionStore), the     *)
(* expo-sqlite persistence service (database.ts) and the Grid Test screen  *)
(* handlers that drive them.                                               *)
(*                                                                         *)
(* An optional value (undefined / null in the source) is a sequence of     *)
(* length 0 or 1: None is undefined, Some(v) is v.                         *)
(* Every async function is split at its awaits: the part before the await  *)
(* is one action, the database statement is one action, the continuation   *)
(* is one action; calls in flight are kept in the sequence `pending`.      *)
(***************************************************************************)
EXTENDS Integers, Sequences, FiniteSets, TLC

VARIABLES
  activeSession,   \* store: DiagnosticSession | null
  sessions,        \* store: DiagnosticSession[] (in-memory history)
  isLoading,       \* store: boolean
  tblSessions,     \* SQLite table sessions (rows, keyed by id)
  tblTouchPoints,  \* SQLite table touch_points, rows in rowid order
  pending,         \* async calls in flight, in call order
  now,             \* Date.now()
  nextId,          \* generateId(): number of the next session id
  lastError,       \* "rejected" when the last finished store call threw or
                   \* rejected, "none" when it did not, "no call" at the start
  started,         \* GridTestScreen: useState started
  finished,        \* GridTestScreen: useState finished
  mounted,         \* GridTestScreen is on the navigation stack
  phase,           \* GhostMonitorScreen: useState phase
  timeLeft,        \* GhostMonitorScreen: useState timeLeft, in seconds
  ghostDots,       \* GhostMonitorScreen: useState ghostDots
  intervalRef,     \* GhostMonitorScreen: intervalRef.current, None is null
  timers,          \* the ids of the intervals setInterval made that were
                   \* not cleared
  finishDots,      \* the ghostDots of the render whose handleFinish the
                   \* interval's callback closes over
  monitorMounted,  \* GhostMonitorScreen is on the navigation stack
  input,           \* the arguments of a pure function that is being evaluated
  output           \* its result, None until it has returned

vars == <<activeSession, sessions, isLoading, tblSessions, tblTouchPoints,
          pending, now, nextId, lastError, started, finished, mounted,
          phase, timeLeft, ghostDots, intervalRef, timers, finishDots,
          monitorMounted, input, output>>

storeVars == <<activeSession, sessions, isLoading>>
dbVars == <<tblSessions, tblTouchPoints>>
gridVars == <<started, finished, mounted>>
fnVars == <<input, output>>
monitorVars == <<phase, timeLeft, ghostDots, intervalRef, timers, finishDots,
                 monitorMounted>>
screenVars == <<gridVars, fnVars, monitorVars>>

----------------------------------------------------------------------------
\* Program constants
GRID_ROWS == 10
GRID_COLS == 6
GHOST_MONITOR_DURATION_MS == 30000
cellSize == 20        \* buildHeatCells: const cellSize

\* Bounds of the model
MaxClock == 1         \* Date.now() ranges over 0..MaxClock
MaxSessions == 1      \* Spec, SaveSpec, EditSpec: startSession calls
MaxPending == 1       \* Spec: async calls in flight at once
MaxTouches == 1       \* SaveSpec, EditSpec: touch points per session
MaxAreas == 1         \* SaveSpec, EditSpec: faulty areas per session
MaxEditSessions == 2  \* TouchSpec: startSession calls in one behaviour
MaxEditTouches == 2   \* TouchSpec: touch points per session
MaxMarks == 2         \* EditSpec: markCellStatus calls that hit a cell
MaxMounts == 1        \* GridSpec: times the Grid Test screen is opened
MaxTaps == 3          \* GridSpec: taps that hit a cell, per session
MaxPoints == 3        \* HeatSpec: touch points handed to buildHeatCells
MaxFinalizeCalls == 2 \* FinalizeSpec: endSession calls in flight
MaxRestarts == 2      \* RestartSpec: sessions started

----------------------------------------------------------------------------
\* Optional values
None == <<>>
Some(v) == <<v>>
IsSome(o) == Len(o) = 1
Get(o) == o[1]

\* Inputs
SessionTypes == {"grid", "ghost_monitor"}
NotesInputs == {None, Some("note")}
\* x, y and the optional isGhost flag of a touch handed to recordTouch
TouchInputs ==
  { [x |-> 15, y |-> 25, isGhost |-> Some(TRUE)],
    [x |-> 130, y |-> 410, isGhost |-> Some(FALSE)],
    [x |-> 130, y |-> 25, isGhost |-> None] }
\* the touch the clients of SaveSpec and EditSpec record
SavedTouchInputs == { [x |-> 15, y |-> 25, isGhost |-> Some(TRUE)] }
\* the cells the user taps on the Grid Test screen
TapInputs == { <<1, 0>>, <<GRID_ROWS - 1, GRID_COLS - 1>> }
\* (row, col) handed to markCellStatus: two cells of the grid and a
\* coordinate outside it
CellInputs == { <<0, 0>>, <<GRID_ROWS - 1, GRID_COLS - 1>>, <<GRID_ROWS, 0>> }
\* the statuses the callers of markCellStatus pass
MarkStatuses == {"ok", "faulty"}

----------------------------------------------------------------------------
\* Sequence helpers
Range(s) == { s[i] : i \in DOMAIN s }

RECURSIVE SeqSum(_)
SeqSum(s) == IF s = <<>> THEN 0 ELSE Head(s) + SeqSum(Tail(s))

RemoveAt(s, i) == SubSeq(s, 1, i - 1) \o SubSeq(s, i + 1, Len(s))

----------------------------------------------------------------------------
\* useSessionStore.ts: pure parts

\* buildEmptyGrid with the row computed from the wrong dimension
buildEmptyGridWrongRow ==
  [ i \in 1..(GRID_ROWS * GRID_COLS) |->
      [ row |-> (i - 1) \div GRID_ROWS,
        col |-> (i - 1) % GRID_COLS,
        status |-> "untested",
        touchCount |-> 0,
        lastTouched |-> None ] ]

\* buildEmptyGrid(): rows outer, columns inner
buildEmptyGrid ==
  [ i \in 1..(GRID_ROWS * GRID_COLS) |->
      [ row |-> (i - 1) \div GRID_COLS,
        col |-> (i - 1) % GRID_COLS,
        status |-> "untested",
        touchCount |-> 0,
        lastTouched |-> None ] ]

\* the session object startSession builds
newSession(id, type, deviceModel, t) ==
  [ id |-> id,
    type |-> type,
    status |-> "active",
    startedAt |-> t,
    endedAt |-> None,
    touchPoints |-> <<>>,
    gridCells |-> IF type = "grid" THEN Some(buildEmptyGrid) ELSE None,
    faultyAreas |-> <<>>,
    notes |-> None,
    deviceModel |-> deviceModel ]

\* completedOf without the status change
completedOfStillActive(s, notes, t) ==
  [ s EXCEPT !.endedAt = Some(t), !.notes = notes ]

\* completedOf that drops the notes
completedOfNoNotes(s, notes, t) ==
  [ s EXCEPT !.status = "completed", !.endedAt = Some(t) ]

\* the `completed` object endSession builds from the active session
completedOf(s, notes, t) ==
  [ s EXCEPT !.status = "completed", !.endedAt = Some(t), !.notes = notes ]

\* withTouch that puts the new touch point first
withTouchPrepend(s, point, id) ==
  [ s EXCEPT !.touchPoints =
      <<[ id |-> id, x |-> point.x, y |-> point.y,
          timestamp |-> point.timestamp, pressure |-> None,
          isGhost |-> point.isGhost ]>> \o @ ]

\* recordTouch: the active session with the touch point appended
withTouch(s, point, id) ==
  [ s EXCEPT !.touchPoints =
      Append(@, [ id |-> id, x |-> point.x, y |-> point.y,
                  timestamp |-> point.timestamp, pressure |-> None,
                  isGhost |-> point.isGhost ]) ]

\* mapCell that compares the row only
mapCellRowOnly(cell, row, col, status, t) ==
  IF cell.row = row
    THEN [ cell EXCEPT !.status = status,
                       !.touchCount = @ + 1,
                       !.lastTouched = Some(t) ]
    ELSE cell

\* markCellStatus: gridCells.map(...) over the cells
mapCell(cell, row, col, status, t) ==
  IF cell.row = row /\ cell.col = col
    THEN [ cell EXCEPT !.status = status,
                       !.touchCount = @ + 1,
                       !.lastTouched = Some(t) ]
    ELSE cell

withCellStatus(s, row, col, status, t) ==
  [ s EXCEPT !.gridCells =
      Some([ i \in DOMAIN Get(s.gridCells) |->
               mapCell(Get(s.gridCells)[i], row, col, status, t) ]) ]

\* addFaultyArea: the active session with the area appended
withFaultyArea(s, area, id) ==
  [ s EXCEPT !.faultyAreas = Append(@, [ area EXCEPT !.id = id ]) ]

----------------------------------------------------------------------------
\* database.ts: the two tables and the statements run against them

\* initDatabase sets only journal_mode; SQLite leaves foreign_keys OFF unless
\* the pragma is issued, so REFERENCES ... ON DELETE CASCADE is not enforced
PragmaForeignKeys == FALSE

RECURSIVE deleteWhereId(_, _)
\* a sequence of records without those whose id is `id`
deleteWhereId(seq, id) ==
  IF seq = <<>> THEN <<>>
  ELSE IF Head(seq).id = id THEN deleteWhereId(Tail(seq), id)
       ELSE <<Head(seq)>> \o deleteWhereId(Tail(seq), id)

RECURSIVE deleteWhereSessionId(_, _)
deleteWhereSessionId(tbl, id) ==
  IF tbl = <<>> THEN <<>>
  ELSE IF Head(tbl).session_id = id THEN deleteWhereSessionId(Tail(tbl), id)
       ELSE <<Head(tbl)>> \o deleteWhereSessionId(Tail(tbl), id)

\* INSERT OR REPLACE INTO sessions: the row with the same primary key goes
insertOrReplaceSession(tbl, row) == { r \in tbl : r.id # row.id } \cup {row}

\* insertOrReplace with the new row before the rows of the table
insertOrReplaceFirst(tbl, row) == <<row>> \o deleteWhereId(tbl, row.id)

\* INSERT OR REPLACE INTO touch_points: a row with the same primary key is
\* deleted, the new row gets a new rowid
insertOrReplace(tbl, row) == Append(deleteWhereId(tbl, row.id), row)

\* saveSession, first statement: the row of table sessions
sessionRow(session) ==
  [ id |-> session.id,
    type |-> session.type,
    status |-> session.status,
    started_at |-> session.startedAt,
    ended_at |-> session.endedAt,
    notes |-> session.notes,
    device_model |-> session.deviceModel ]

\* saveSession, loop body: the row of table touch_points
touchPointRow(session, tp) ==
  [ id |-> tp.id,
    session_id |-> session.id,
    x |-> tp.x,
    y |-> tp.y,
    timestamp |-> tp.timestamp,
    pressure |-> tp.pressure,
    is_ghost |-> IF IsSome(tp.isGhost) /\ Get(tp.isGhost) THEN 1 ELSE 0 ]

\* getSessions / getSessionById: a row of sessions as a DiagnosticSession
\* (no gridCells key; touchPoints as given, faultyAreas always [])
sessionOfRow(r, touchPoints) ==
  [ id |-> r.id,
    type |-> r.type,
    status |-> r.status,
    startedAt |-> r.started_at,
    endedAt |-> r.ended_at,
    notes |-> r.notes,
    deviceModel |-> r.device_model,
    touchPoints |-> touchPoints,
    gridCells |-> None,
    faultyAreas |-> <<>> ]

touchPointOfRow(t) ==
  [ id |-> t.id, x |-> t.x, y |-> t.y, timestamp |-> t.timestamp,
    pressure |-> t.pressure, isGhost |-> Some(t.is_ghost = 1) ]

\* ORDER BY started_at DESC: every ordering of the rows with started_at
\* non-increasing (SQL leaves the order of ties open)
IsOrderedDesc(rows) ==
  \A i \in 1..(Len(rows) - 1) : rows[i].started_at >= rows[i + 1].started_at

Orderings(tbl) ==
  { o \in [1..Cardinality(tbl) -> tbl] : Range(o) = tbl }

\* the possible results of getSessions()
getSessions(tbl) ==
  { [ i \in DOMAIN rows |-> sessionOfRow(rows[i], <<>>) ] :
      rows \in { o \in Orderings(tbl) : IsOrderedDesc(o) } }

RECURSIVE touchRowsOf(_, _)
\* SELECT * FROM touch_points WHERE session_id = ? (rowid order)
touchRowsOf(tbl, id) ==
  IF tbl = <<>> THEN <<>>
  ELSE IF Head(tbl).session_id = id
         THEN <<Head(tbl)>> \o touchRowsOf(Tail(tbl), id)
         ELSE touchRowsOf(Tail(tbl), id)

\* getSessionById(id): None is null
getSessionById(tblS, tblT, id) ==
  IF \E r \in tblS : r.id = id
    THEN LET row == CHOOSE r \in tblS : r.id = id
             tpRows == touchRowsOf(tblT, id)
         IN Some(sessionOfRow(row,
                   [ i \in DOMAIN tpRows |-> touchPointOfRow(tpRows[i]) ]))
    ELSE None

\* deleteSession(id): DELETE FROM sessions WHERE id = ?
db_deleteSession(tblS, tblT, id) ==
  <<{ r \in tblS : r.id # id },
    IF PragmaForeignKeys THEN deleteWhereSessionId(tblT, id) ELSE tblT>>

----------------------------------------------------------------------------
\* Calls in flight.  op: the async function; pc: where it is suspended;
\* completed: the local `completed` of endSession; written: touch points
\* inserted so far; id: the argument of deleteSession; rows: the result of
\* db.getSessions().
Call(op, pc, completed, id) ==
  [ op |-> op, pc |-> pc, completed |-> completed, written |-> 0,
    id |-> id, rows |-> <<>> ]

\* generateId() for a touch point or faulty area of session s: an id no
\* other point or area has (the session's id and a running number)
generatePartId(s) == <<s.id, Len(s.touchPoints) + Len(s.faultyAreas) + 1>>

HasActive == activeSession # None
Active == Get(activeSession)

\* zoneForCell with the column tests before the row tests
zoneForCellColumnsFirst(row, col, totalRows, totalCols) ==
  IF col = 0 THEN "digitizer_left_edge"
  ELSE IF col = totalCols - 1 THEN "digitizer_right_edge"
  ELSE IF row < 2 THEN "digitizer_top"
  ELSE IF row >= totalRows - 2 THEN "digitizer_bottom"
  ELSE "lcd_connector"

\* GridTestScreen.tsx
zoneForCell(row, col, totalRows, totalCols) ==
  IF row < 2 THEN "digitizer_top"
  ELSE IF row >= totalRows - 2 THEN "digitizer_bottom"
  ELSE IF col = 0 THEN "digitizer_left_edge"
  ELSE IF col = totalCols - 1 THEN "digitizer_right_edge"
  ELSE "lcd_connector"

\* the FaultyArea handleFinish derives from a cell; a percentage n/d*100 is
\* kept as the pair <<100*n, d>>
areaOfCell(cell) ==
  [ id |-> <<0, 0>>,
    label |-> <<"Cell", cell.row, cell.col>>,
    xPercent |-> <<100 * cell.col, GRID_COLS>>,
    yPercent |-> <<100 * cell.row, GRID_ROWS>>,
    widthPercent |-> <<100, GRID_COLS>>,
    heightPercent |-> <<100, GRID_ROWS>>,
    severity |-> "medium",
    hardwareZone |-> zoneForCell(cell.row, cell.col, GRID_ROWS, GRID_COLS) ]

----------------------------------------------------------------------------
\* useSessionStore.ts: the store's actions

\* Date.now() moves on
Tick ==
  /\ now' = now + 1
  /\ UNCHANGED <<storeVars, dbVars, pending, nextId, lastError, screenVars>>

startSession(type, deviceModel) ==
  /\ activeSession' = Some(newSession(nextId, type, deviceModel, now))
  /\ nextId' = nextId + 1
  /\ lastError' = "none"
  /\ UNCHANGED <<sessions, isLoading, dbVars, pending, now, screenVars>>

\* endSession up to `await db.saveSession(completed)`
endSession(notes) ==
  /\ IF ~HasActive
       THEN /\ lastError' = "none"
            /\ UNCHANGED pending
       ELSE /\ pending' = Append(pending,
                 Call("endSession", "row", Some(completedOf(Active, notes, now)), 0))
            /\ UNCHANGED lastError
  /\ UNCHANGED <<storeVars, dbVars, now, nextId, screenVars>>

\* db.saveSession: INSERT OR REPLACE INTO sessions
saveSessionRow(i) ==
  /\ pending[i].op = "endSession" /\ pending[i].pc = "row"
  /\ LET c == Get(pending[i].completed) IN
       /\ tblSessions' = insertOrReplaceSession(tblSessions, sessionRow(c))
       /\ pending' = [ pending EXCEPT ![i].pc =
                         IF Len(c.touchPoints) > 0 THEN "points" ELSE "resume" ]
  /\ UNCHANGED <<storeVars, tblTouchPoints, now, nextId, lastError, screenVars>>

\* db.saveSession: one INSERT OR REPLACE INTO touch_points of the loop
saveSessionPoint(i) ==
  /\ pending[i].op = "endSession" /\ pending[i].pc = "points"
  /\ LET c == Get(pending[i].completed)
         k == pending[i].written + 1
     IN
       /\ tblTouchPoints' =
            insertOrReplace(tblTouchPoints, touchPointRow(c, c.touchPoints[k]))
       /\ pending' = [ pending EXCEPT
                         ![i].written = k,
                         ![i].pc = IF k = Len(c.touchPoints)
                                     THEN "resume" ELSE "points" ]
  /\ UNCHANGED <<storeVars, tblSessions, now, nextId, lastError, screenVars>>

\* endSession after the await: set((s) => ({activeSession: null, ...}))
endSessionResume(i) ==
  /\ pending[i].op = "endSession" /\ pending[i].pc = "resume"
  /\ activeSession' = None
  /\ sessions' = <<Get(pending[i].completed)>> \o sessions
  /\ pending' = RemoveAt(pending, i)
  /\ lastError' = "none"
  /\ UNCHANGED <<isLoading, dbVars, now, nextId, screenVars>>

\* a failed save that is swallowed and empties the active slot
saveSessionFailsSwallowed(i) ==
  /\ pending[i].op = "endSession" /\ pending[i].pc \in {"row", "points"}
  /\ pending' = RemoveAt(pending, i)
  /\ lastError' = "none"
  /\ activeSession' = None
  /\ UNCHANGED <<sessions, isLoading, dbVars, now, nextId, screenVars>>

\* a statement of db.saveSession rejects: the await in endSession throws and
\* the promise endSession returned rejects
saveSessionFails(i) ==
  /\ pending[i].op = "endSession" /\ pending[i].pc \in {"row", "points"}
  /\ pending' = RemoveAt(pending, i)
  /\ lastError' = "rejected"
  /\ UNCHANGED <<storeVars, dbVars, now, nextId, screenVars>>

cancelSession ==
  /\ activeSession' = None
  /\ lastError' = "none"
  /\ UNCHANGED <<sessions, isLoading, dbVars, pending, now, nextId, screenVars>>

resetActiveSession ==
  /\ activeSession' = None
  /\ lastError' = "none"
  /\ UNCHANGED <<sessions, isLoading, dbVars, pending, now, nextId, screenVars>>

recordTouch(point) ==
  /\ IF ~HasActive
       THEN UNCHANGED activeSession
       ELSE activeSession' = Some(withTouch(Active, point, generatePartId(Active)))
  /\ lastError' = "none"
  /\ UNCHANGED <<sessions, isLoading, dbVars, pending, now, nextId, screenVars>>

markCellStatus(row, col, status) ==
  /\ IF ~HasActive \/ Active.gridCells = None
       THEN UNCHANGED activeSession
       ELSE activeSession' = Some(withCellStatus(Active, row, col, status, now))
  /\ lastError' = "none"
  /\ UNCHANGED <<sessions, isLoading, dbVars, pending, now, nextId, screenVars>>

addFaultyArea(area) ==
  /\ IF ~HasActive
       THEN UNCHANGED activeSession
       ELSE activeSession' =
              Some(withFaultyArea(Active, area, generatePartId(Active)))
  /\ lastError' = "none"
  /\ UNCHANGED <<sessions, isLoading, dbVars, pending, now, nextId, screenVars>>

\* loadSessions up to `await db.getSessions()`
loadSessions ==
  /\ isLoading' = TRUE
  /\ pending' = Append(pending, Call("loadSessions", "query", None, 0))
  /\ UNCHANGED <<activeSession, sessions, dbVars, now, nextId, lastError, screenVars>>

\* db.getSessions: SELECT * FROM sessions ORDER BY started_at DESC
getSessionsQuery(i) ==
  /\ pending[i].op = "loadSessions" /\ pending[i].pc = "query"
  /\ \E res \in getSessions(tblSessions) :
       pending' = [ pending EXCEPT ![i].rows = res, ![i].pc = "resume" ]
  /\ UNCHANGED <<storeVars, dbVars, now, nextId, lastError, screenVars>>

\* loadSessions after the await: set({ sessions, isLoading: false })
loadSessionsResume(i) ==
  /\ pending[i].op = "loadSessions" /\ pending[i].pc = "resume"
  /\ sessions' = pending[i].rows
  /\ isLoading' = FALSE
  /\ pending' = RemoveAt(pending, i)
  /\ lastError' = "none"
  /\ UNCHANGED <<activeSession, dbVars, now, nextId, screenVars>>

\* db.getSessions rejects: catch { set({ isLoading: false }) }
loadSessionsCatch(i) ==
  /\ pending[i].op = "loadSessions" /\ pending[i].pc = "query"
  /\ isLoading' = FALSE
  /\ pending' = RemoveAt(pending, i)
  /\ lastError' = "none"
  /\ UNCHANGED <<activeSession, sessions, dbVars, now, nextId, screenVars>>

\* deleteSession up to `await db.deleteSession(id)`
deleteSession(id) ==
  /\ pending' = Append(pending, Call("deleteSession", "exec", None, id))
  /\ UNCHANGED <<storeVars, dbVars, now, nextId, lastError, screenVars>>

\* db.deleteSession: DELETE FROM sessions WHERE id = ?
deleteSessionExec(i) ==
  /\ pending[i].op = "deleteSession" /\ pending[i].pc = "exec"
  /\ LET r == db_deleteSession(tblSessions, tblTouchPoints, pending[i].id) IN
       /\ tblSessions' = r[1]
       /\ tblTouchPoints' = r[2]
  /\ pending' = [ pending EXCEPT ![i].pc = "resume" ]
  /\ UNCHANGED <<storeVars, now, nextId, lastError, screenVars>>

\* deleteSession after the await: sessions.filter((sess) => sess.id !== id)
deleteSessionResume(i) ==
  /\ pending[i].op = "deleteSession" /\ pending[i].pc = "resume"
  /\ sessions' = deleteWhereId(sessions, pending[i].id)
  /\ pending' = RemoveAt(pending, i)
  /\ lastError' = "none"
  /\ UNCHANGED <<activeSession, isLoading, dbVars, now, nextId, screenVars>>

\* db.deleteSession rejects
deleteSessionFails(i) ==
  /\ pending[i].op = "deleteSession" /\ pending[i].pc = "exec"
  /\ pending' = RemoveAt(pending, i)
  /\ lastError' = "rejected"
  /\ UNCHANGED <<storeVars, dbVars, now, nextId, screenVars>>

----------------------------------------------------------------------------
\* The store and the database under any client

\* the store, the database and the screens when the app has started
InitApp ==
  /\ activeSession = None
  /\ sessions = <<>>
  /\ isLoading = FALSE
  /\ tblSessions = {}
  /\ tblTouchPoints = <<>>
  /\ pending = <<>>
  /\ now = 0
  /\ nextId = 1
  /\ lastError = "no call"
  /\ started = FALSE
  /\ finished = FALSE
  /\ mounted = FALSE
  /\ phase = "idle"
  /\ timeLeft = GHOST_MONITOR_DURATION_MS \div 1000
  /\ ghostDots = <<>>
  /\ intervalRef = None
  /\ timers = {}
  /\ finishDots = <<>>
  /\ monitorMounted = FALSE

Init ==
  /\ InitApp
  /\ input = None
  /\ output = None

AreaInputs == { areaOfCell([row |-> GRID_ROWS - 1, col |-> GRID_COLS - 1]) }

TouchArg(p) == [x |-> p.x, y |-> p.y, timestamp |-> now, isGhost |-> p.isGhost]

CanCall == Len(pending) < MaxPending

\* the sessions life cycle and the history under any client, with up to
\* MaxPending calls in flight; no touch is recorded, so that the loop of
\* saveSession over the touch points is empty
Next ==
  \/ \E type \in SessionTypes : nextId <= MaxSessions /\ startSession(type, None)
  \/ \E notes \in NotesInputs : (HasActive => CanCall) /\ endSession(notes)
  \/ cancelSession
  \/ resetActiveSession
  \/ CanCall /\ loadSessions
  \/ \E i \in DOMAIN sessions : CanCall /\ deleteSession(sessions[i].id)
  \/ \E i \in DOMAIN pending :
       \/ saveSessionRow(i)
       \/ endSessionResume(i)
       \/ saveSessionFails(i)
       \/ getSessionsQuery(i)
       \/ loadSessionsResume(i)
       \/ loadSessionsCatch(i)
       \/ deleteSessionExec(i)
       \/ deleteSessionResume(i)
       \/ deleteSessionFails(i)

Spec == Init /\ [][Next]_vars

----------------------------------------------------------------------------
\* Saving a session with its touch points and faulty areas: a client that
\* awaits endSession and loadSessions before it calls either again

SaveNext ==
  \/ nextId <= MaxSessions /\ startSession("ghost_monitor", None)
  \/ \E notes \in NotesInputs :
       (HasActive => pending = <<>>) /\ endSession(notes)
  \/ cancelSession
  \/ \E p \in SavedTouchInputs :
       /\ HasActive => Len(Active.touchPoints) < MaxTouches
       /\ recordTouch(TouchArg(p))
  \/ \E a \in AreaInputs :
       /\ HasActive => Len(Active.faultyAreas) < MaxAreas
       /\ addFaultyArea(a)
  \/ pending = <<>> /\ loadSessions
  \/ \E i \in DOMAIN pending :
       \/ saveSessionRow(i)
       \/ saveSessionPoint(i)
       \/ endSessionResume(i)
       \/ saveSessionFails(i)
       \/ getSessionsQuery(i)
       \/ loadSessionsResume(i)
       \/ loadSessionsCatch(i)

SaveSpec == Init /\ [][SaveNext]_vars

----------------------------------------------------------------------------
\* Recording touches: startSession, cancelSession and recordTouch under any
\* client

TouchNext ==
  \/ now < MaxClock /\ Tick
  \/ \E type \in SessionTypes :
       nextId <= MaxEditSessions /\ startSession(type, None)
  \/ cancelSession
  \/ \E p \in TouchInputs :
       /\ HasActive => Len(Active.touchPoints) < MaxEditTouches
       /\ recordTouch(TouchArg(p))

TouchSpec == Init /\ [][TouchNext]_vars

----------------------------------------------------------------------------
\* Editing an active grid session: the synchronous store actions under any
\* client

TouchCountSum(s) ==
  IF IsSome(s.gridCells)
    THEN SeqSum([ i \in DOMAIN Get(s.gridCells) |->
                    Get(s.gridCells)[i].touchCount ])
    ELSE 0

EditNext ==
  \/ now < MaxClock /\ Tick
  \/ nextId <= MaxSessions /\ startSession("grid", None)
  \/ cancelSession
  \/ \E p \in SavedTouchInputs :
       /\ HasActive => Len(Active.touchPoints) < MaxTouches
       /\ recordTouch(TouchArg(p))
  \/ \E c \in CellInputs, st \in MarkStatuses :
       /\ HasActive => TouchCountSum(Active) < MaxMarks
       /\ markCellStatus(c[1], c[2], st)
  \/ \E a \in AreaInputs :
       /\ HasActive => Len(Active.faultyAreas) < MaxAreas
       /\ addFaultyArea(a)

EditSpec == Init /\ [][EditNext]_vars

----------------------------------------------------------------------------
\* GridTestScreen.tsx: the handlers of the Grid Test screen

\* const gridCells = activeSession?.gridCells ?? []
gridCells ==
  IF HasActive /\ IsSome(Active.gridCells) THEN Get(Active.gridCells) ELSE <<>>

\* gridCells.find((c) => c.row === row && c.col === col): None is undefined
findCell(cells, row, col) ==
  IF \E i \in DOMAIN cells : cells[i].row = row /\ cells[i].col = col
    THEN Some(cells[CHOOSE i \in DOMAIN cells :
                      /\ cells[i].row = row /\ cells[i].col = col
                      /\ \A j \in 1..(i - 1) :
                           ~(cells[j].row = row /\ cells[j].col = col)])
    ELSE None

\* useEffect(() => { startSession('grid'); setStarted(true); ... }, [])
mountGridTest ==
  /\ ~mounted
  /\ activeSession' = Some(newSession(nextId, "grid", None, now))
  /\ nextId' = nextId + 1
  /\ lastError' = "none"
  /\ mounted' = TRUE
  /\ started' = TRUE
  /\ finished' = FALSE
  /\ UNCHANGED <<sessions, isLoading, dbVars, pending, now, fnVars,
                 monitorVars>>

\* the cleanup of that effect: cancelSession()
unmountGridTest ==
  /\ mounted
  /\ activeSession' = None
  /\ lastError' = "none"
  /\ mounted' = FALSE
  /\ started' = FALSE
  /\ finished' = FALSE
  /\ UNCHANGED <<sessions, isLoading, dbVars, pending, now, nextId,
                 fnVars, monitorVars>>

\* pressStatus that leaves a faulty cell faulty
pressStatusFaultyStays(cell) ==
  IF cell.status \in {"ok", "faulty"} THEN "faulty" ELSE "ok"

\* pressStatus without the double-tap branch
pressStatusAlwaysOk(cell) == "ok"

\* the status handleCellPress hands to markCellStatus for a cell
pressStatus(cell) == IF cell.status = "ok" THEN "faulty" ELSE "ok"

handleCellPress(row, col) ==
  /\ mounted
  /\ IF ~started \/ finished \/ findCell(gridCells, row, col) = None
       THEN UNCHANGED <<activeSession, lastError>>
       ELSE /\ activeSession' =
                 Some(withCellStatus(Active, row, col,
                        pressStatus(Get(findCell(gridCells, row, col))), now))
            /\ lastError' = "none"
  /\ UNCHANGED <<sessions, isLoading, dbVars, pending, now, nextId, screenVars>>

\* a filter that keeps every cell
filterFaultyAll(cells) == cells

RECURSIVE filterFaulty(_)
\* gridCells.filter((c) => c.status === 'faulty' || c.status === 'ghost')
filterFaulty(cells) ==
  IF cells = <<>> THEN <<>>
  ELSE IF Head(cells).status \in {"faulty", "ghost"}
         THEN <<Head(cells)>> \o filterFaulty(Tail(cells))
         ELSE filterFaulty(Tail(cells))

RECURSIVE addFaultyAreas(_, _)
\* for (const cell of faultyCells) addFaultyArea(area of cell): the active
\* slot after the loop
addFaultyAreas(slot, cells) ==
  IF cells = <<>> \/ slot = None THEN slot
  ELSE addFaultyAreas(
         Some(withFaultyArea(Get(slot), areaOfCell(Head(cells)),
                             generatePartId(Get(slot)))),
         Tail(cells))

RECURSIVE countUntested(_)
countUntested(cells) ==
  IF cells = <<>> THEN 0
  ELSE (IF Head(cells).status = "untested" THEN 1 ELSE 0)
       + countUntested(Tail(cells))

\* the notes handleFinish passes to endSession
gridNotes(cells) ==
  Some(<<"Grid test", GRID_ROWS * GRID_COLS - countUntested(cells),
         Len(filterFaulty(cells))>>)

\* handleFinish up to `await endSession(...)`; the Done button is disabled
\* while no cell is tested
handleFinish ==
  /\ mounted
  /\ countUntested(gridCells) < Len(gridCells)
  /\ IF finished
       THEN UNCHANGED <<activeSession, pending, finished, lastError>>
       ELSE LET slot == addFaultyAreas(activeSession, filterFaulty(gridCells)) IN
            /\ finished' = TRUE
            /\ activeSession' = slot
            /\ IF slot = None
                 THEN /\ lastError' = "none"
                      /\ UNCHANGED pending
                 ELSE /\ pending' = Append(pending,
                           Call("endSession", "row",
                                Some(completedOf(Get(slot), gridNotes(gridCells), now)),
                                0))
                      /\ lastError' = "none"
  /\ UNCHANGED <<sessions, isLoading, dbVars, now, nextId, started, mounted,
                 fnVars, monitorVars>>

\* handleCancel, 'Discard': cancelSession(); navigation.goBack() unmounts the
\* screen, whose cleanup calls cancelSession() again
handleCancel ==
  /\ mounted
  /\ activeSession' = None
  /\ lastError' = "none"
  /\ mounted' = FALSE
  /\ started' = FALSE
  /\ finished' = FALSE
  /\ UNCHANGED <<sessions, isLoading, dbVars, pending, now, nextId,
                 fnVars, monitorVars>>

GridNext ==
  \/ now < MaxClock /\ Tick
  \/ nextId <= MaxMounts /\ mountGridTest
  \/ unmountGridTest
  \/ \E c \in TapInputs :
       /\ TouchCountSum([gridCells |-> Some(gridCells)]) < MaxTaps
       /\ handleCellPress(c[1], c[2])
  \/ handleFinish
  \/ handleCancel
  \/ \E i \in DOMAIN pending :
       \/ saveSessionRow(i)
       \/ endSessionResume(i)
       \/ saveSessionFails(i)

GridSpec == Init /\ [][GridNext]_vars

----------------------------------------------------------------------------
\* Properties

EndSessionCalls == { i \in DOMAIN pending : pending[i].op = "endSession" }

\* C1: at most one session is active: whatever is in the history list, has
\* been handed to saveSession or is a row of table sessions has status
\* 'completed'; only the session in the active slot has status 'active'.
C1_OnlyTheSlotIsActive ==
  /\ HasActive => Active.status = "active"
  /\ \A i \in DOMAIN sessions : sessions[i].status = "completed"
  /\ \A i \in EndSessionCalls : Get(pending[i].completed).status = "completed"
  /\ \A r \in tblSessions : r.status = "completed"

\* C1 witness: a session went through endSession into the table and the list
C1_Witness ==
  /\ Len(sessions) > 0
  /\ Head(sessions).status = "completed"
  /\ Head(sessions).notes = Some("note")
  /\ \E r \in tblSessions : r.id = Head(sessions).id /\ r.status = "completed"

\* C2 as stated: startSession with a session in the active slot leaves that
\* session in the slot.
C2_StartSessionKeepsActive ==
  [][ (HasActive /\ \E type \in SessionTypes : startSession(type, None))
        => activeSession' = activeSession ]_vars

\* C3: endSession(notes) on an active session hands saveSession a session
\* with status 'completed', endedAt set, the given notes and the id,
\* touchPoints and faultyAreas of the active session at the call; when the
\* save is through, that session is the head of the history list and the
\* active slot is empty.
C3_EndSessionCompletes ==
  [][ /\ \A notes \in NotesInputs :
           (HasActive /\ endSession(notes)) =>
             LET c == Get(pending'[Len(pending')].completed) IN
               /\ c.status = "completed"
               /\ IsSome(c.endedAt)
               /\ c.notes = notes
               /\ c.id = Active.id
               /\ c.touchPoints = Active.touchPoints
               /\ c.faultyAreas = Active.faultyAreas
      /\ \A i \in DOMAIN pending :
           saveSessionRow(i) =>
             \E r \in tblSessions' :
               /\ r.id = Get(pending[i].completed).id
               /\ r.status = "completed"
               /\ IsSome(r.ended_at)
               /\ r.notes = Get(pending[i].completed).notes
      /\ \A i \in DOMAIN pending :
           endSessionResume(i) =>
             /\ activeSession' = None
             /\ Len(sessions') = Len(sessions) + 1
             /\ Head(sessions') = Get(pending[i].completed)
             /\ Head(sessions').status = "completed"
    ]_vars

\* C3 witness: a session with a touch point, a faulty area and notes was
\* ended and saved
C3_Witness ==
  /\ activeSession = None
  /\ Len(sessions) > 0
  /\ Head(sessions).status = "completed"
  /\ Head(sessions).notes = Some("note")
  /\ Len(Head(sessions).touchPoints) > 0
  /\ Len(Head(sessions).faultyAreas) > 0
  /\ \E r \in tblSessions : r.id = Head(sessions).id

\* C4 as stated: endSession with no active session fails with NoActiveSession.
C4_EndSessionFailsWithoutActive ==
  [][ (~HasActive /\ \E notes \in NotesInputs : endSession(notes))
        => lastError' = "NoActiveSession" ]_vars

\* C5 as stated: the session cancelSession discards is not passed to
\* saveSession, is not saved and is not in the history list.
C5_CancelledIsNeverSaved ==
  [][ (HasActive /\ cancelSession) =>
        /\ activeSession' = None
        /\ \A i \in EndSessionCalls' : Get(pending'[i].completed).id # Active.id
        /\ \A r \in tblSessions' : r.id # Active.id
        /\ \A i \in DOMAIN sessions' : sessions'[i].id # Active.id ]_vars

\* C6 as stated: a completed session of the history list keeps its status,
\* touchPoints and faultyAreas for as long as it is in the list.
C6_HistoryEntriesAreImmutable ==
  [][ \A i \in DOMAIN sessions, j \in DOMAIN sessions' :
        sessions[i].id = sessions'[j].id =>
          /\ sessions'[j].status = sessions[i].status
          /\ sessions'[j].touchPoints = sessions[i].touchPoints
          /\ sessions'[j].faultyAreas = sessions[i].faultyAreas ]_vars

\* x, y, timestamp and isGhost of a touch point
TouchData(tp) ==
  [x |-> tp.x, y |-> tp.y, timestamp |-> tp.timestamp, isGhost |-> tp.isGhost]

\* C7: every recordTouch on an active session adds exactly one touch point,
\* after the ones recorded before, carrying the x, y, timestamp and isGhost
\* of the call; so N calls leave N touch points in call order.
C7_RecordTouchAppends ==
  [][ \A p \in TouchInputs :
        (HasActive /\ recordTouch(TouchArg(p))) =>
          /\ activeSession' # None
          /\ Len(Get(activeSession').touchPoints) = Len(Active.touchPoints) + 1
          /\ SubSeq(Get(activeSession').touchPoints, 1, Len(Active.touchPoints))
               = Active.touchPoints
          /\ TouchData(Get(activeSession').touchPoints[Len(Active.touchPoints) + 1])
               = TouchArg(p)
          /\ \A i \in DOMAIN Active.touchPoints :
               Active.touchPoints[i].id
                 # Get(activeSession').touchPoints[Len(Active.touchPoints) + 1].id
    ]_vars

\* C7 witness: two different touches recorded, in call order
C7_Witness ==
  /\ HasActive
  /\ Len(Active.touchPoints) = 2
  /\ Active.touchPoints[1].isGhost = Some(TRUE)
  /\ Active.touchPoints[2].isGhost = None
  /\ Active.touchPoints[1].x # Active.touchPoints[2].x

CellPairs(cells) == { <<cells[i].row, cells[i].col>> : i \in DOMAIN cells }

\* the cells are exactly one per (row, col) of the grid
GridShape(slot) ==
  (slot # None /\ Get(slot).type = "grid") =>
    /\ IsSome(Get(slot).gridCells)
    /\ LET cells == Get(Get(slot).gridCells) IN
         /\ Len(cells) = GRID_ROWS * GRID_COLS
         /\ Cardinality(CellPairs(cells)) = Len(cells)
         /\ CellPairs(cells) = (0..(GRID_ROWS - 1)) \X (0..(GRID_COLS - 1))

\* C8: right after startSession('grid') there are GRID_ROWS*GRID_COLS cells,
\* one per (row, col), all 'untested' with touchCount 0; in every later state
\* of the session the number of cells and their (row, col) are the same.
C8_GridIsComplete ==
  [][ /\ GridShape(activeSession')
      /\ startSession("grid", None) =>
           \A i \in DOMAIN Get(Get(activeSession').gridCells) :
             /\ Get(Get(activeSession').gridCells)[i].status = "untested"
             /\ Get(Get(activeSession').gridCells)[i].touchCount = 0
      /\ (HasActive /\ activeSession' # None
            /\ Get(activeSession').id = Active.id /\ Active.type = "grid") =>
           /\ Len(Get(Get(activeSession').gridCells)) = Len(Get(Active.gridCells))
           /\ CellPairs(Get(Get(activeSession').gridCells))
                = CellPairs(Get(Active.gridCells))
    ]_vars

\* C8 witness: a grid session some of whose cells were marked
C8_Witness ==
  /\ HasActive
  /\ Active.type = "grid"
  /\ TouchCountSum(Active) = 2
  /\ Len(Active.touchPoints) > 0

\* C9: on the Grid Test screen a tap on an 'untested' cell makes it 'ok' with
\* touchCount 1, and a tap on that cell again makes it 'faulty' with
\* touchCount 2.
C9_TapTwice ==
  [][ \A c \in TapInputs :
        (mounted /\ started /\ ~finished /\ gridCells # <<>>
           /\ handleCellPress(c[1], c[2])) =>
          LET old == Get(findCell(gridCells, c[1], c[2]))
              new == Get(findCell(Get(Get(activeSession').gridCells), c[1], c[2]))
          IN /\ old.status = "untested" =>
                  new.status = "ok" /\ new.touchCount = 1
             /\ (old.status = "ok" /\ old.touchCount = 1) =>
                  new.status = "faulty" /\ new.touchCount = 2
    ]_vars

\* C9 witness: a cell tapped twice
C9_Witness ==
  /\ mounted
  /\ \E i \in DOMAIN gridCells :
       gridCells[i].status = "faulty" /\ gridCells[i].touchCount = 2

InGrid(row, col) ==
  row \in 0..(GRID_ROWS - 1) /\ col \in 0..(GRID_COLS - 1)

\* C10: markCellStatus(row, col, status) with (row, col) in the grid, on an
\* active grid session, sets that cell's status, adds 1 to its touchCount and
\* stamps lastTouched, and changes no other cell, no touch point and no faulty
\* area; and no step lowers a cell's touchCount while the session is active.
C10_MarkCellStatusFrame ==
  [][ /\ \A c \in CellInputs, st \in MarkStatuses :
           (HasActive /\ IsSome(Active.gridCells) /\ InGrid(c[1], c[2])
              /\ markCellStatus(c[1], c[2], st)) =>
             /\ activeSession' # None
             /\ LET old == Get(Active.gridCells)
                    new == Get(Get(activeSession').gridCells)
                IN /\ DOMAIN new = DOMAIN old
                   /\ \A i \in DOMAIN old :
                        IF old[i].row = c[1] /\ old[i].col = c[2]
                          THEN /\ new[i].status = st
                               /\ new[i].touchCount = old[i].touchCount + 1
                               /\ new[i].lastTouched = Some(now)
                               /\ new[i].row = old[i].row
                               /\ new[i].col = old[i].col
                          ELSE new[i] = old[i]
             /\ Get(activeSession').touchPoints = Active.touchPoints
             /\ Get(activeSession').faultyAreas = Active.faultyAreas
             /\ Get(activeSession').id = Active.id
      /\ (HasActive /\ activeSession' # None /\ IsSome(Active.gridCells)
            /\ Get(activeSession').id = Active.id) =>
           \A i \in DOMAIN Get(Active.gridCells) :
             Get(Get(activeSession').gridCells)[i].touchCount
               >= Get(Active.gridCells)[i].touchCount
    ]_vars

\* C10 witness: a cell marked twice, ending 'faulty', in a session that has a
\* touch point and a faulty area
C10_Witness ==
  /\ HasActive
  /\ IsSome(Active.gridCells)
  /\ \E i \in DOMAIN Get(Active.gridCells) :
       /\ Get(Active.gridCells)[i].touchCount = 2
       /\ Get(Active.gridCells)[i].status = "faulty"
  /\ Len(Active.touchPoints) > 0
  /\ Len(Active.faultyAreas) > 0

\* C11 as stated: markCellStatus with row or col outside the grid fails with
\* OutOfBounds, that is, on an active grid session such a call cannot return
\* without that error, and it leaves every cell unchanged.
C11_OutOfBoundsFails ==
  \A c \in CellInputs, st \in MarkStatuses :
    (HasActive /\ IsSome(Active.gridCells) /\ ~InGrid(c[1], c[2])) =>
      ~ ENABLED (/\ markCellStatus(c[1], c[2], st)
                 /\ lastError' # "OutOfBounds")

----------------------------------------------------------------------------
\* zoneForCell as a function of its four arguments

\* (row, col, totalRows, totalCols): the cells of the grid of the app, of a
\* grid of 3 rows and 1 column, and coordinates next to either grid
ZoneInputs ==
  { [row |-> r, col |-> c, totalRows |-> t[1], totalCols |-> t[2]] :
      r \in (-1)..GRID_ROWS, c \in (-1)..GRID_COLS,
      t \in { <<GRID_ROWS, GRID_COLS>>, <<3, 1>> } }

HardwareZones ==
  { "digitizer_top", "digitizer_bottom", "digitizer_left_edge",
    "digitizer_right_edge", "lcd_connector" }

ZoneInit ==
  /\ InitApp
  /\ input \in ZoneInputs
  /\ output = None

callZoneForCell ==
  /\ output = None
  /\ output' = Some(zoneForCell(input.row, input.col,
                                input.totalRows, input.totalCols))
  /\ UNCHANGED <<storeVars, dbVars, pending, now, nextId, lastError,
                 gridVars, monitorVars, input>>

ZoneNext == callZoneForCell

ZoneSpec == ZoneInit /\ [][ZoneNext]_vars

\* C12: zoneForCell returns for any arguments one zone, fixed by the
\* arguments: digitizer_top if row < 2; else digitizer_bottom if
\* row >= totalRows - 2; else digitizer_left_edge if col = 0; else
\* digitizer_right_edge if col = totalCols - 1; else lcd_connector. Rows win
\* over columns: (0, 0) is digitizer_top.
C12_ZoneChain ==
  (IsSome(output) /\ input \in ZoneInputs) =>
    LET z == Get(output)
        top == input.row < 2
        bottom == input.row >= input.totalRows - 2
        left == input.col = 0
        right == input.col = input.totalCols - 1
    IN /\ z \in HardwareZones
       /\ top => z = "digitizer_top"
       /\ (~top /\ bottom) => z = "digitizer_bottom"
       /\ (~top /\ ~bottom /\ left) => z = "digitizer_left_edge"
       /\ (~top /\ ~bottom /\ ~left /\ right) => z = "digitizer_right_edge"
       /\ (~top /\ ~bottom /\ ~left /\ ~right) => z = "lcd_connector"
       /\ (input.row = 0 /\ input.col = 0) => z = "digitizer_top"

\* C12 witness: the zone of the corner cell (0, 0) of the grid of the app
C12_Witness ==
  /\ input \in ZoneInputs
  /\ input.row = 0 /\ input.col = 0 /\ input.totalRows = GRID_ROWS
  /\ output = Some("digitizer_top")

----------------------------------------------------------------------------
\* HeatmapScreen.tsx: buildHeatCells(points, containerW, containerH)
\*
\* The coordinates are integers and the container sizes are powers of two, so
\* that pt.x / containerW and its product with cols are exact in double
\* arithmetic and Math.floor of it is the integer quotient below.
\* normalizedIntensity, the quotient count / maxCount, is kept as the pair
\* <<count, maxCount>>.

\* Math.ceil(a / b) for b > 0
ceilDiv(a, b) == -((-a) \div b)

heatCols(containerW) == ceilDiv(containerW, cellSize)
heatRows(containerH) == ceilDiv(containerH, cellSize)

\* Math.floor((pt.x / containerW) * cols), Math.floor((pt.y / containerH) * rows)
binCol(pt, containerW) == (pt.x * heatCols(containerW)) \div containerW
binRow(pt, containerH) == (pt.y * heatRows(containerH)) \div containerH

\* the bin test without its lower limits
inBinsNoLowerLimit(pt, containerW, containerH) ==
  /\ binRow(pt, containerH) < heatRows(containerH)
  /\ binCol(pt, containerW) < heatCols(containerW)

\* row >= 0 && row < rows && col >= 0 && col < cols
inBins(pt, containerW, containerH) ==
  /\ binRow(pt, containerH) >= 0
  /\ binRow(pt, containerH) < heatRows(containerH)
  /\ binCol(pt, containerW) >= 0
  /\ binCol(pt, containerW) < heatCols(containerW)

Bins(containerW, containerH) ==
  (0..(heatRows(containerH) - 1)) \X (0..(heatCols(containerW) - 1))

\* Array.from({ length: rows }, () => new Array(cols).fill(0))
emptyHeatGrid(containerW, containerH) ==
  [ b \in Bins(containerW, containerH) |-> 0 ]

RECURSIVE fillHeatGrid(_, _, _, _)
\* for (const pt of points) { ... grid[row][col] += 1 }: Some(grid) after the
\* loop, None when the statement is reached with a row or col that is not an
\* index of the grid (grid[row] is undefined, or a cell outside the row is
\* written)
fillHeatGrid(grid, points, containerW, containerH) ==
  IF points = <<>> THEN Some(grid)
  ELSE LET pt == Head(points)
           b == <<binRow(pt, containerH), binCol(pt, containerW)>>
       IN IF inBins(pt, containerW, containerH)
            THEN IF b \in DOMAIN grid
                   THEN fillHeatGrid([grid EXCEPT ![b] = @ + 1], Tail(points),
                                     containerW, containerH)
                   ELSE None
            ELSE fillHeatGrid(grid, Tail(points), containerW, containerH)

Max(S) == CHOOSE m \in S : \A n \in S : n <= m

\* Math.max(1) without the counts of the bins
heatMaxCountOne(grid) == 1

\* Math.max(1, ...grid.flat())
heatMaxCount(grid) == Max({1} \cup { grid[b] : b \in DOMAIN grid })

RECURSIVE heatCellsFromAllBins(_, _, _, _)
\* heatCellsFrom without the test grid[r][c] > 0
heatCellsFromAllBins(k, grid, rows, cols) ==
  IF k >= rows * cols THEN <<>>
  ELSE LET r == k \div cols
           c == k % cols
       IN << [ x |-> c * cellSize,
               y |-> r * cellSize,
               count |-> grid[<<r, c>>],
               normalizedIntensity |-> <<grid[<<r, c>>], heatMaxCount(grid)>> ] >>
          \o heatCellsFromAllBins(k + 1, grid, rows, cols)

RECURSIVE heatCellsFrom(_, _, _, _)
\* the two nested loops that push the cells, from bin number k on, the bins
\* numbered row by row
heatCellsFrom(k, grid, rows, cols) ==
  IF k >= rows * cols THEN <<>>
  ELSE LET r == k \div cols
           c == k % cols
       IN (IF grid[<<r, c>>] > 0
             THEN << [ x |-> c * cellSize,
                       y |-> r * cellSize,
                       count |-> grid[<<r, c>>],
                       normalizedIntensity |->
                         <<grid[<<r, c>>], heatMaxCount(grid)>> ] >>
             ELSE <<>>)
          \o heatCellsFrom(k + 1, grid, rows, cols)

\* threw: an exception left the function; cells: the list it returned
buildHeatCells(points, containerW, containerH) ==
  IF Len(points) = 0 THEN [threw |-> FALSE, cells |-> <<>>]
  ELSE LET grid == fillHeatGrid(emptyHeatGrid(containerW, containerH), points,
                                containerW, containerH)
       IN IF grid = None
            THEN [threw |-> TRUE, cells |-> <<>>]
            ELSE [threw |-> FALSE,
                  cells |-> heatCellsFrom(0, Get(grid), heatRows(containerH),
                                          heatCols(containerW))]

\* x and y of the touch points handed to buildHeatCells: three inside the
\* container, two of them in one bin, and one off each side of it
HeatPoints ==
  { [x |-> 0, y |-> 0], [x |-> 1, y |-> 2], [x |-> 63, y |-> 127],
    [x |-> 64, y |-> 0], [x |-> 5, y |-> 128],
    [x |-> -1, y |-> 5], [x |-> 5, y |-> -1] }

RECURSIVE SeqsUpTo(_, _)
\* the sequences over S of length n or less
SeqsUpTo(S, n) ==
  IF n = 0 THEN { <<>> }
  ELSE LET shorter == SeqsUpTo(S, n - 1) IN
         shorter \cup { Append(q, e) : q \in shorter, e \in S }

HeatInputs ==
  { [points |-> ps, containerW |-> 64, containerH |-> 128] :
      ps \in SeqsUpTo(HeatPoints, MaxPoints) }

HeatInit ==
  /\ InitApp
  /\ input \in HeatInputs
  /\ output = None

callBuildHeatCells ==
  /\ output = None
  /\ output' = Some(buildHeatCells(input.points, input.containerW,
                                   input.containerH))
  /\ UNCHANGED <<storeVars, dbVars, pending, now, nextId, lastError,
                 gridVars, monitorVars, input>>

HeatNext == callBuildHeatCells

HeatSpec == HeatInit /\ [][HeatNext]_vars

\* the point lies in the container
InsideContainer(pt, containerW, containerH) ==
  /\ 0 <= pt.x /\ pt.x < containerW
  /\ 0 <= pt.y /\ pt.y < containerH

\* C13 as stated: buildHeatCells returns the empty list for no point, and for
\* one point, wherever it lies, one HeatCell with count 1 and
\* normalizedIntensity 1.
C13_OnePointOneCell ==
  (IsSome(output) /\ input \in HeatInputs) =>
    LET cells == Get(output).cells IN
      /\ ~Get(output).threw
      /\ Len(input.points) = 0 => cells = <<>>
      /\ Len(input.points) = 1 =>
           /\ Len(cells) = 1
           /\ cells[1].count = 1
           /\ cells[1].normalizedIntensity[1] = cells[1].normalizedIntensity[2]

\* C13 amended: buildHeatCells returns the empty list for no point; for one
\* point that lies in the container, one HeatCell with count 1 and
\* normalizedIntensity 1; for one point outside the container, the empty list.
C13_OnePointInsideOneCell ==
  (IsSome(output) /\ input \in HeatInputs) =>
    LET cells == Get(output).cells IN
      /\ ~Get(output).threw
      /\ Len(input.points) = 0 => cells = <<>>
      /\ (/\ Len(input.points) = 1
          /\ InsideContainer(input.points[1], input.containerW,
                             input.containerH)) =>
           /\ Len(cells) = 1
           /\ cells[1].count = 1
           /\ cells[1].normalizedIntensity = <<1, 1>>
      /\ (/\ Len(input.points) = 1
          /\ ~InsideContainer(input.points[1], input.containerW,
                              input.containerH)) =>
           cells = <<>>

\* C13 witness: one point in the last bin of the container gave one cell
C13_Witness ==
  /\ IsSome(output) /\ input \in HeatInputs
  /\ input.points = << [x |-> 63, y |-> 127] >>
  /\ Len(Get(output).cells) = 1
  /\ Get(output).cells[1].x = 3 * cellSize

\* the points of the sequence that lie in the container
PointsInside(points, containerW, containerH) ==
  { i \in DOMAIN points :
      InsideContainer(points[i], containerW, containerH) }

\* C14: buildHeatCells does not fail on points outside the container: they
\* are discarded and every other point is counted in one bin, so the counts
\* of the cells add up to the number of points in the container; no cell has
\* count 0, no two cells are of the same bin and there are at most rows*cols
\* cells.
C14_OutOfRangeDiscarded ==
  (IsSome(output) /\ input \in HeatInputs) =>
    LET cells == Get(output).cells
        W == input.containerW
        H == input.containerH
    IN /\ ~Get(output).threw
       /\ SeqSum([ i \in DOMAIN cells |-> cells[i].count ])
            = Cardinality(PointsInside(input.points, W, H))
       /\ \A i \in DOMAIN cells : cells[i].count > 0
       /\ \A i, j \in DOMAIN cells :
            (cells[i].x = cells[j].x /\ cells[i].y = cells[j].y) => i = j
       /\ Len(cells) <= heatRows(H) * heatCols(W)
       /\ \A p \in PointsInside(input.points, W, H) :
            \E i \in DOMAIN cells :
              /\ cells[i].x = cellSize * ((input.points[p].x * heatCols(W)) \div W)
              /\ cells[i].y = cellSize * ((input.points[p].y * heatRows(H)) \div H)

\* C14 witness: three points, one of them left of the container and two in
\* one bin, gave one cell with count 2
C14_Witness ==
  /\ IsSome(output) /\ input \in HeatInputs
  /\ input.points = << [x |-> 0, y |-> 0], [x |-> -1, y |-> 5],
                      [x |-> 1, y |-> 2] >>
  /\ Len(Get(output).cells) = 1
  /\ Get(output).cells[1].count = 2

\* C15: every HeatCell has normalizedIntensity count / maxCount, maxCount
\* being the larger of 1 and the largest count; so 1 <= count <= maxCount,
\* and when there is a cell, one cell has count maxCount and intensity 1.
C15_NormalizedIntensity ==
  (IsSome(output) /\ input \in HeatInputs) =>
    LET cells == Get(output).cells
        maxCount == Max({1} \cup { cells[i].count : i \in DOMAIN cells })
    IN /\ \A i \in DOMAIN cells :
            /\ cells[i].normalizedIntensity = <<cells[i].count, maxCount>>
            /\ 1 <= cells[i].count
            /\ cells[i].count <= maxCount
       /\ cells # <<>> =>
            \E i \in DOMAIN cells :
              /\ cells[i].count = maxCount
              /\ cells[i].normalizedIntensity[1] = cells[i].normalizedIntensity[2]

\* C15 witness: a bin with two points and a bin with one: intensities 2/2
\* and 1/2
C15_Witness ==
  /\ IsSome(output) /\ input \in HeatInputs
  /\ Len(Get(output).cells) = 2
  /\ Get(output).cells[1].normalizedIntensity = <<2, 2>>
  /\ Get(output).cells[2].normalizedIntensity = <<1, 2>>

----------------------------------------------------------------------------
\* Saving sessions with several touch points and reading them back with
\* getSessionById: a client that awaits endSession before it calls it again

\* the touches recorded here: a ghost, and one with isGhost left undefined
RoundTripTouchInputs == { p \in TouchInputs : p.isGhost # Some(FALSE) }

RoundTripNext ==
  \/ now < MaxClock /\ Tick
  \/ nextId <= MaxSessions /\ startSession("ghost_monitor", None)
  \/ (HasActive => pending = <<>>) /\ endSession(None)
  \/ \E p \in RoundTripTouchInputs :
       /\ HasActive => Len(Active.touchPoints) < MaxEditTouches
       /\ recordTouch(TouchArg(p))
  \/ \E i \in DOMAIN pending :
       \/ saveSessionRow(i)
       \/ saveSessionPoint(i)
       \/ endSessionResume(i)
       \/ saveSessionFails(i)

RoundTripSpec == Init /\ [][RoundTripNext]_vars

\* the ghost flag of a touch point: isGhost is true (not false or undefined)
GhostFlag(tp) == IsSome(tp.isGhost) /\ Get(tp.isGhost)

\* C16: a completed session that saveSession has saved (here: every session
\* of the history list) is returned by getSessionById with as many touch
\* points as it has, in the same order, each with the same x, y, timestamp
\* and ghost flag.
C16_RoundTrip ==
  \A i \in DOMAIN sessions :
    LET s == sessions[i]
        got == getSessionById(tblSessions, tblTouchPoints, s.id)
    IN /\ IsSome(got)
       /\ Len(Get(got).touchPoints) = Len(s.touchPoints)
       /\ \A k \in DOMAIN s.touchPoints :
            /\ Get(got).touchPoints[k].x = s.touchPoints[k].x
            /\ Get(got).touchPoints[k].y = s.touchPoints[k].y
            /\ Get(got).touchPoints[k].timestamp = s.touchPoints[k].timestamp
            /\ GhostFlag(Get(got).touchPoints[k]) = GhostFlag(s.touchPoints[k])

\* C16 witness: a saved session with two touch points at different places and
\* times, the first a ghost, the second with no isGhost
C16_Witness ==
  \E i \in DOMAIN sessions :
    /\ Len(sessions[i].touchPoints) = 2
    /\ sessions[i].touchPoints[1].isGhost = Some(TRUE)
    /\ sessions[i].touchPoints[2].isGhost = None
    /\ sessions[i].touchPoints[1].timestamp < sessions[i].touchPoints[2].timestamp
    /\ Len(touchRowsOf(tblTouchPoints, sessions[i].id)) = 2

----------------------------------------------------------------------------
\* Deleting saved sessions: a client that awaits endSession and deleteSession
\* before it calls either again

DeleteNext ==
  \/ now < MaxClock /\ Tick
  \/ nextId <= MaxSessions /\ startSession("ghost_monitor", None)
  \/ \E notes \in NotesInputs :
       (HasActive => pending = <<>>) /\ endSession(notes)
  \/ \E p \in SavedTouchInputs :
       /\ HasActive => Len(Active.touchPoints) < MaxTouches
       /\ recordTouch(TouchArg(p))
  \/ \E i \in DOMAIN sessions :
       pending = <<>> /\ deleteSession(sessions[i].id)
  \/ \E i \in DOMAIN pending :
       \/ saveSessionRow(i)
       \/ saveSessionPoint(i)
       \/ endSessionResume(i)
       \/ saveSessionFails(i)
       \/ deleteSessionExec(i)
       \/ deleteSessionResume(i)
       \/ deleteSessionFails(i)

DeleteSpec == Init /\ [][DeleteNext]_vars

\* C17 as stated: when deleteSession(id) has succeeded, the session is in no
\* result of getSessions() and not in the history list, getSessionById(id)
\* finds nothing, and table touch_points holds no touch point of the session.
C17_DeleteCascades ==
  [][ \A i \in DOMAIN pending :
        deleteSessionResume(i) =>
          LET id == pending[i].id IN
            /\ \A res \in getSessions(tblSessions') :
                 \A k \in DOMAIN res : res[k].id # id
            /\ \A k \in DOMAIN sessions' : sessions'[k].id # id
            /\ getSessionById(tblSessions', tblTouchPoints', id) = None
            /\ touchRowsOf(tblTouchPoints', id) = <<>>
    ]_vars

----------------------------------------------------------------------------
\* GhostMonitorScreen.tsx: the Ghost Touch Monitor screen

\* (locationX, locationY) of the touches the digitizer reports
GhostTouchInputs == { <<15, 25>>, <<130, 410>> }

\* setInterval returns an id no other timer has
newTimerId == IF timers = {} THEN 1 ELSE Max(timers) + 1

\* a clearInterval that clears nothing
clearIntervalNever == timers

\* if (intervalRef.current) clearInterval(intervalRef.current): the intervals
\* that are left; the ref keeps the id
clearIntervalRef ==
  IF IsSome(intervalRef) THEN timers \ {Get(intervalRef)} ELSE timers

\* the notes handleFinish passes to endSession
monitorNotes(count) == Some(<<"Ghost monitor", count>>)

\* navigation to the screen: the useState and useRef initial values
mountGhostMonitor ==
  /\ ~monitorMounted
  /\ monitorMounted' = TRUE
  /\ phase' = "idle"
  /\ timeLeft' = GHOST_MONITOR_DURATION_MS \div 1000
  /\ ghostDots' = <<>>
  /\ intervalRef' = None
  /\ finishDots' = <<>>
  /\ UNCHANGED <<storeVars, dbVars, pending, now, nextId, lastError,
                 gridVars, fnVars, timers>>

\* an unmount that leaves the interval running
unmountKeepsInterval ==
  /\ monitorMounted
  /\ monitorMounted' = FALSE
  /\ phase' = "idle"
  /\ timeLeft' = GHOST_MONITOR_DURATION_MS \div 1000
  /\ ghostDots' = <<>>
  /\ intervalRef' = None
  /\ finishDots' = <<>>
  /\ UNCHANGED <<storeVars, dbVars, pending, now, nextId, lastError,
                 gridVars, fnVars, timers>>

\* the screen leaves the navigation stack ('Go Back', the back gesture): the
\* cleanup of the effect clears the interval; the component's state is gone
\* and shown as the initial values
unmountGhostMonitor ==
  /\ monitorMounted
  /\ timers' = clearIntervalRef
  /\ monitorMounted' = FALSE
  /\ phase' = "idle"
  /\ timeLeft' = GHOST_MONITOR_DURATION_MS \div 1000
  /\ ghostDots' = <<>>
  /\ intervalRef' = None
  /\ finishDots' = <<>>
  /\ UNCHANGED <<storeVars, dbVars, pending, now, nextId, lastError,
                 gridVars, fnVars>>

\* the Start button, which is rendered in phase 'idle' only
startMonitoring ==
  /\ monitorMounted
  /\ phase = "idle"
  /\ activeSession' = Some(newSession(nextId, "ghost_monitor", None, now))
  /\ nextId' = nextId + 1
  /\ lastError' = "none"
  /\ phase' = "monitoring"
  /\ timeLeft' = GHOST_MONITOR_DURATION_MS \div 1000
  /\ ghostDots' = <<>>
  /\ intervalRef' = Some(newTimerId)
  /\ timers' = timers \cup {newTimerId}
  /\ finishDots' = ghostDots
  /\ UNCHANGED <<sessions, isLoading, dbVars, pending, now, gridVars, fnVars,
                 monitorMounted>>

\* handleFinish up to `await endSession(...)`, as the interval's callback
\* calls it: ghostDots is the one of the render that made the callback
handleFinishMonitor ==
  /\ timers' = clearIntervalRef
  /\ phase' = "finished"
  /\ IF ~HasActive
       THEN /\ lastError' = "none"
            /\ UNCHANGED pending
       ELSE /\ pending' = Append(pending,
                 Call("endSession", "row",
                      Some(completedOf(Active, monitorNotes(Len(finishDots)), now)),
                      0))
            /\ UNCHANGED lastError

\* the interval fires: setTimeLeft((t) => ...), the updater run once
intervalTick ==
  /\ timers # {}
  /\ IF timeLeft <= 1
       THEN /\ handleFinishMonitor
            /\ timeLeft' = 0
       ELSE /\ timeLeft' = timeLeft - 1
            /\ UNCHANGED <<timers, phase, pending, lastError>>
  /\ UNCHANGED <<storeVars, dbVars, now, nextId, gridVars, fnVars, ghostDots,
                 intervalRef, finishDots, monitorMounted>>

\* handleTouchStart without the phase test
handleTouchStartAnyPhase(x, y) ==
  /\ monitorMounted
  /\ ghostDots' = Append(ghostDots, [x |-> x, y |-> y, ts |-> now])
  /\ IF ~HasActive
       THEN UNCHANGED activeSession
       ELSE activeSession' =
              Some(withTouch(Active,
                     [x |-> x, y |-> y, timestamp |-> now,
                      isGhost |-> Some(TRUE)],
                     generatePartId(Active)))
  /\ lastError' = "none"
  /\ UNCHANGED <<sessions, isLoading, dbVars, pending, now, nextId, gridVars,
                 fnVars, phase, timeLeft, intervalRef, timers, finishDots,
                 monitorMounted>>

\* onResponderGrant of the capture area
handleTouchStart(x, y) ==
  /\ monitorMounted
  /\ IF phase # "monitoring"
       THEN UNCHANGED <<activeSession, lastError, ghostDots>>
       ELSE /\ ghostDots' = Append(ghostDots, [x |-> x, y |-> y, ts |-> now])
            /\ IF ~HasActive
                 THEN UNCHANGED activeSession
                 ELSE activeSession' =
                        Some(withTouch(Active,
                               [x |-> x, y |-> y, timestamp |-> now,
                                isGhost |-> Some(TRUE)],
                               generatePartId(Active)))
            /\ lastError' = "none"
  /\ UNCHANGED <<sessions, isLoading, dbVars, pending, now, nextId, gridVars,
                 fnVars, phase, timeLeft, intervalRef, timers, finishDots,
                 monitorMounted>>

\* the close button of the header: clearInterval, cancelSession(), and
\* navigation.goBack() unmounts the screen
handleCancelMonitor ==
  /\ monitorMounted
  /\ timers' = clearIntervalRef
  /\ activeSession' = None
  /\ lastError' = "none"
  /\ monitorMounted' = FALSE
  /\ phase' = "idle"
  /\ timeLeft' = GHOST_MONITOR_DURATION_MS \div 1000
  /\ ghostDots' = <<>>
  /\ intervalRef' = None
  /\ finishDots' = <<>>
  /\ UNCHANGED <<sessions, isLoading, dbVars, pending, now, nextId, gridVars,
                 fnVars>>

\* the monitor screen with its timer, the touches of the digitizer and the
\* save of the finished session
MonitorNext ==
  \/ now < MaxClock /\ Tick
  \/ mountGhostMonitor
  \/ unmountGhostMonitor
  \/ nextId <= MaxMounts /\ startMonitoring
  \/ intervalTick
  \/ \E p \in GhostTouchInputs :
       /\ Len(ghostDots) < MaxTouches
       /\ handleTouchStart(p[1], p[2])
  \/ handleCancelMonitor
  \/ \E i \in DOMAIN pending :
       \/ saveSessionRow(i)
       \/ saveSessionPoint(i)
       \/ endSessionResume(i)
       \/ saveSessionFails(i)

MonitorSpec == Init /\ [][MonitorNext]_vars

\* C18: the countdown starts at GHOST_MONITOR_DURATION_MS / 1000; a tick of
\* the interval takes exactly one second off a remaining time of at least
\* one; the tick that reaches zero, and only that one, ends the monitoring
\* phase, calls endSession (which hands the session of the active slot to
\* the save) and clears the interval, so that no tick follows it.
C18_Countdown ==
  [][ /\ startMonitoring => timeLeft' = GHOST_MONITOR_DURATION_MS \div 1000
      /\ intervalTick =>
           /\ timeLeft >= 1
           /\ timeLeft' = timeLeft - 1
           /\ timeLeft' = 0 =>
                /\ phase = "monitoring" /\ phase' = "finished"
                /\ HasActive =>
                     /\ Len(pending') = Len(pending) + 1
                     /\ pending' = Append(pending,
                           Call("endSession", "row",
                                Some(completedOf(Active,
                                       Get(pending'[Len(pending')].completed).notes,
                                       now)),
                                0))
                /\ ~HasActive => UNCHANGED pending
                /\ timers' = {}
           /\ timeLeft' > 0 => UNCHANGED <<pending, phase, timers>>
    ]_vars

C18_Witness ==
  /\ monitorMounted
  /\ phase = "finished"
  /\ timeLeft = 0
  /\ timers = {}
  /\ Len(sessions) = 1
  /\ sessions[1].status = "completed"
  /\ sessions[1].type = "ghost_monitor"

\* C19: once the monitor screen is cancelled or torn down no interval is
\* left running, and the interval only ever fires on the mounted screen in
\* phase 'monitoring', never for a session of the active slot that was
\* already handed to the save or is in the history list.
C19_NoDanglingTimer ==
  /\ [](~monitorMounted => timers = {})
  /\ [][ /\ handleCancelMonitor => timers' = {}
         /\ unmountGhostMonitor => timers' = {}
         /\ intervalTick =>
              /\ monitorMounted
              /\ phase = "monitoring"
              /\ HasActive =>
                   /\ Active.status = "active"
                   /\ Active.type = "ghost_monitor"
                   /\ \A i \in DOMAIN pending :
                        Get(pending[i].completed).id # Active.id
                   /\ \A i \in DOMAIN sessions : sessions[i].id # Active.id
       ]_vars

C19_Witness ==
  /\ ~monitorMounted
  /\ nextId > 1
  /\ ~HasActive
  /\ sessions = <<>>
  /\ pending = <<>>
  /\ tblSessions = {}
  /\ timers = {}

----------------------------------------------------------------------------
\* endSession called again while an earlier call awaits db.saveSession: a
\* client that starts sessions and calls endSession without awaiting it, with
\* up to MaxFinalizeCalls calls in flight
FinalizeNext ==
  \/ now < MaxClock /\ Tick
  \/ \E type \in SessionTypes :
       nextId <= MaxSessions /\ startSession(type, None)
  \/ \E notes \in NotesInputs :
       Len(pending) < MaxFinalizeCalls /\ endSession(notes)
  \/ \E i \in DOMAIN pending :
       \/ saveSessionRow(i)
       \/ endSessionResume(i)
       \/ saveSessionFails(i)

FinalizeSpec == Init /\ [][FinalizeNext]_vars

\* C20: a session is handed to saveSession at most once and is in the history
\* list at most once: no two endSession calls in flight carry the same
\* session and no two entries of the history list have the same id.
C20_FinalizedOnce ==
  /\ \A i, j \in DOMAIN pending :
       (i # j /\ pending[i].op = "endSession" /\ pending[j].op = "endSession")
         => Get(pending[i].completed).id # Get(pending[j].completed).id
  /\ \A i, j \in DOMAIN sessions :
       i # j => sessions[i].id # sessions[j].id

----------------------------------------------------------------------------
\* C21: when a statement of db.saveSession rejects, the promise endSession
\* returned rejects, and the active slot and the history list are what they
\* were: a session that was in the slot is still there with status 'active'.
C21_FailedSaveKeepsState ==
  [][ \A i \in DOMAIN pending :
        saveSessionFails(i) =>
          /\ lastError' = "rejected"
          /\ activeSession' = activeSession
          /\ sessions' = sessions
          /\ (HasActive /\ Active.id = Get(pending[i].completed).id) =>
               /\ activeSession' # None
               /\ Get(activeSession').id = Get(pending[i].completed).id
               /\ Get(activeSession').status = "active"
    ]_vars

\* C21 witness: the save of a session failed after its row was written, and
\* the session is still the active one
C21_Witness ==
  /\ lastError = "rejected"
  /\ pending = <<>>
  /\ HasActive
  /\ Active.status = "active"
  /\ Len(Active.touchPoints) > 0
  /\ sessions = <<>>
  /\ \E r \in tblSessions : r.id = Active.id

----------------------------------------------------------------------------
\* the two test screens of the navigation stack, one of them mounted at a
\* time, with the save of the sessions they finish
ScreensNext ==
  \/ ~monitorMounted /\ nextId <= MaxMounts /\ mountGridTest
  \/ unmountGridTest
  \/ \E c \in TapInputs :
       /\ TouchCountSum([gridCells |-> Some(gridCells)]) < MaxTaps
       /\ handleCellPress(c[1], c[2])
  \/ handleFinish
  \/ handleCancel
  \/ ~mounted /\ mountGhostMonitor
  \/ unmountGhostMonitor
  \/ nextId <= MaxMounts /\ startMonitoring
  \/ intervalTick
  \/ \E p \in GhostTouchInputs :
       /\ Len(ghostDots) < MaxTouches
       /\ handleTouchStart(p[1], p[2])
  \/ handleCancelMonitor
  \/ \E i \in DOMAIN pending :
       \/ saveSessionRow(i)
       \/ saveSessionPoint(i)
       \/ endSessionResume(i)
       \/ saveSessionFails(i)

ScreensSpec == Init /\ [][ScreensNext]_vars

\* the sessions of the store: the active slot, the sessions handed to the
\* save and the history list
StoreSessions ==
  (IF HasActive THEN {Active} ELSE {})
    \cup { Get(pending[i].completed) : i \in DOMAIN pending }
    \cup Range(sessions)

\* C22: every touch point of a ghost_monitor session has isGhost = true, no
\* touch point of a grid session has, and the touch points of the active
\* session only change in a step of the mounted monitor screen in phase
\* 'monitoring'.
C22_GhostFlagByMode ==
  /\ [](\A ses \in StoreSessions :
          \A k \in DOMAIN ses.touchPoints :
            /\ ses.type = "ghost_monitor" => ses.touchPoints[k].isGhost = Some(TRUE)
            /\ ses.type = "grid" => ses.touchPoints[k].isGhost # Some(TRUE))
  /\ [][ (/\ HasActive /\ activeSession' # None
           /\ Get(activeSession').id = Active.id
           /\ Get(activeSession').touchPoints # Active.touchPoints) =>
            /\ monitorMounted
            /\ phase = "monitoring"
            /\ Active.type = "ghost_monitor"
            /\ Len(Get(activeSession').touchPoints) = Len(Active.touchPoints) + 1
       ]_vars

\* C22 witness: a monitor session with a recorded touch is in the history
C22_Witness ==
  /\ Len(sessions) > 0
  /\ sessions[1].type = "ghost_monitor"
  /\ Len(sessions[1].touchPoints) > 0
  /\ sessions[1].touchPoints[1].isGhost = Some(TRUE)
  /\ phase = "finished"

----------------------------------------------------------------------------
\* a session started while the save of the one before is awaited: a client
\* that starts up to MaxRestarts sessions, records touches, cancels, and has
\* one endSession call in flight at a time
RestartNext ==
  \/ now < MaxClock /\ Tick
  \/ \E type \in SessionTypes :
       nextId <= MaxRestarts /\ startSession(type, None)
  \/ CanCall /\ endSession(None)
  \/ cancelSession
  \/ \E p \in SavedTouchInputs :
       /\ HasActive => Len(Active.touchPoints) < MaxTouches
       /\ recordTouch(TouchArg(p))
  \/ \E i \in DOMAIN pending :
       \/ saveSessionRow(i)
       \/ saveSessionPoint(i)
       \/ endSessionResume(i)
       \/ saveSessionFails(i)

RestartSpec == Init /\ [][RestartNext]_vars

\* C23: an endSession that resumes after its save leaves an active session
\* alone that is not the one it saved.
C23_ResumeKeepsLaterSession ==
  [][ \A i \in DOMAIN pending :
        (/\ endSessionResume(i)
         /\ HasActive
         /\ Active.id # Get(pending[i].completed).id) =>
          activeSession' = activeSession
    ]_vars

----------------------------------------------------------------------------
\* the entries of a faultyAreas list that were made for the cell (row, col)
AreasOfCell(areas, row, col) ==
  { k \in DOMAIN areas : areas[k].label = <<"Cell", row, col>> }

\* C24: the session handleFinish hands to the save has one faulty area for
\* each cell that is 'faulty' or 'ghost' when the test is finished, none for
\* the other cells, and each area carries the hardware zone of its cell.
C24_FaultyAreasOfFinish ==
  [][ (mounted /\ ~finished /\ finished' /\ HasActive /\ handleFinish) =>
        LET cells == gridCells
            c == Get(pending'[Len(pending')].completed)
        IN
          /\ Len(pending') = Len(pending) + 1
          /\ c.id = Active.id
          /\ \A i \in DOMAIN cells :
               Cardinality(AreasOfCell(c.faultyAreas, cells[i].row, cells[i].col))
                 = IF cells[i].status \in {"faulty", "ghost"} THEN 1 ELSE 0
          /\ \A k \in DOMAIN c.faultyAreas :
               \E i \in DOMAIN cells :
                 /\ c.faultyAreas[k].label = <<"Cell", cells[i].row, cells[i].col>>
                 /\ c.faultyAreas[k].hardwareZone =
                      zoneForCell(cells[i].row, cells[i].col, GRID_ROWS, GRID_COLS)
    ]_vars

\* C24 witness: a grid test with a faulty and an ok cell was finished
C24_Witness ==
  /\ mounted
  /\ finished
  /\ \E i \in DOMAIN pending :
       LET c == Get(pending[i].completed) IN
         /\ c.type = "grid"
         /\ Len(c.faultyAreas) = 1
         /\ \E k \in DOMAIN Get(c.gridCells) : Get(c.gridCells)[k].status = "ok"

----------------------------------------------------------------------------
\* C25: when endSession has saved a session, getSessionById returns it with
\* the faulty areas it was finalized with.
C25_FaultyAreasSurvive ==
  [][ \A i \in DOMAIN pending :
        endSessionResume(i) =>
          LET c == Get(pending[i].completed)
              loaded == getSessionById(tblSessions', tblTouchPoints', c.id)
          IN /\ loaded # None
             /\ Get(loaded).faultyAreas = c.faultyAreas
    ]_vars

----------------------------------------------------------------------------
\* the history list under a client that starts up to MaxRestarts sessions at
\* different times and has up to MaxFinalizeCalls store calls in flight
HistoryNext ==
  \/ now < MaxClock /\ Tick
  \/ nextId <= MaxRestarts /\ startSession("ghost_monitor", None)
  \/ Len(pending) < MaxFinalizeCalls /\ endSession(None)
  \/ cancelSession
  \/ Len(pending) < MaxFinalizeCalls /\ loadSessions
  \/ \E i \in DOMAIN sessions :
       Len(pending) < MaxFinalizeCalls /\ deleteSession(sessions[i].id)
  \/ \E i \in DOMAIN pending :
       \/ saveSessionRow(i)
       \/ endSessionResume(i)
       \/ saveSessionFails(i)
       \/ getSessionsQuery(i)
       \/ loadSessionsResume(i)
       \/ loadSessionsCatch(i)
       \/ deleteSessionExec(i)
       \/ deleteSessionResume(i)
       \/ deleteSessionFails(i)

HistorySpec == Init /\ [][HistoryNext]_vars

\* C26: the history list is sorted by startedAt, most recent first.
C26_HistoryMostRecentFirst ==
  \A i \in 1..(Len(sessions) - 1) :
    sessions[i].startedAt >= sessions[i + 1].startedAt

----------------------------------------------------------------------------
\* C27: the number of phantom touches in the notes of a session the
\* countdown finalizes is the number of touch points of that session.
C27_NotesCountTouches ==
  [][ (intervalTick /\ timeLeft' = 0 /\ HasActive) =>
        LET c == Get(pending'[Len(pending')].completed) IN
          /\ c.id = Active.id
          /\ c.notes = monitorNotes(Len(c.touchPoints))
    ]_vars

----------------------------------------------------------------------------
\* C28: a tap on a 'faulty' cell of the active grid session sets it to 'ok',
\* a tap yields 'faulty' exactly when the cell was 'ok', and every tap adds
\* one to the touchCount of the cell and leaves the other cells alone.
C28_TapAlternates ==
  [][ \A c \in TapInputs :
        (mounted /\ started /\ ~finished /\ gridCells # <<>>
           /\ handleCellPress(c[1], c[2])) =>
          LET cells2 == Get(Get(activeSession').gridCells)
              old == Get(findCell(gridCells, c[1], c[2]))
              new == Get(findCell(cells2, c[1], c[2]))
          IN /\ old.status = "faulty" => new.status = "ok"
             /\ new.status = "faulty" <=> old.status = "ok"
             /\ new.status \in {"ok", "faulty"}
             /\ new.touchCount = old.touchCount + 1
             /\ Len(cells2) = Len(gridCells)
             /\ \A i \in DOMAIN gridCells :
                  (gridCells[i].row # c[1] \/ gridCells[i].col # c[2]) =>
                    cells2[i] = gridCells[i]
    ]_vars

\* C28 witness: a cell tapped three times is 'ok' again
C28_Witness ==
  /\ mounted
  /\ \E i \in DOMAIN gridCells :
       gridCells[i].status = "ok" /\ gridCells[i].touchCount = 3

----------------------------------------------------------------------------
\* buildHeatCells for one touch point inside a square container whose side is
\* a multiple of cellSize (40) or is not (50); Math.floor((x / W) * cols) is
\* (x * cols) \div W for these integers
BinInputs ==
  { [points |-> <<[x |-> px, y |-> py]>>, containerW |-> side,
     containerH |-> side] :
      side \in {2 * cellSize, 2 * cellSize + 10},
      px \in 0..(2 * cellSize + 9), py \in {3, cellSize - 3} }

BinInit ==
  /\ InitApp
  /\ input \in { i \in BinInputs : i.points[1].x < i.containerW }
  /\ output = None

BinNext == callBuildHeatCells

BinSpec == BinInit /\ [][BinNext]_vars

\* C29: a touch point that buildHeatCells counts lies inside the square of
\* side cellSize of the cell it is counted in.
C29_PointInsideItsCell ==
  (IsSome(output) /\ ~Get(output).threw) =>
    \A k \in DOMAIN input.points :
      LET pt == input.points[k] IN
        inBins(pt, input.containerW, input.containerH) =>
          \E n \in DOMAIN Get(output).cells :
            LET cell == Get(output).cells[n] IN
              /\ cell.x = binCol(pt, input.containerW) * cellSize
              /\ cell.y = binRow(pt, input.containerH) * cellSize
              /\ cell.x <= pt.x /\ pt.x < cell.x + cellSize
              /\ cell.y <= pt.y /\ pt.y < cell.y + cellSize

----------------------------------------------------------------------------
\* the monitor screen when no save fails, the interval fires as long as it
\* was not cleared and every awaited statement of the save resolves; what
\* the user does is left open
MonitorLiveNext ==
  \/ now < MaxClock /\ Tick
  \/ mountGhostMonitor
  \/ unmountGhostMonitor
  \/ nextId <= MaxMounts /\ startMonitoring
  \/ intervalTick
  \/ \E p \in GhostTouchInputs :
       /\ Len(ghostDots) < MaxTouches
       /\ handleTouchStart(p[1], p[2])
  \/ handleCancelMonitor
  \/ \E i \in DOMAIN pending :
       \/ saveSessionRow(i)
       \/ saveSessionPoint(i)
       \/ endSessionResume(i)

MonitorLiveSpec ==
  /\ Init
  /\ [][MonitorLiveNext]_vars
  /\ WF_vars(intervalTick)
  /\ WF_vars(\E i \in DOMAIN pending :
               saveSessionRow(i) \/ saveSessionPoint(i) \/ endSessionResume(i))

\* C30: a monitor session that is in the active slot eventually leaves it.
C30_SessionLeavesSlot ==
  (HasActive /\ Active.type = "ghost_monitor") ~> ~HasActive

====
